---- MODULE Spec2Model ----
(***************************************************************************)
(* A model of depccg's A* CCG parser front end (src/depccg/parser.pyx):    *)
(* EnglishCCGParser._parse_doc_tag_and_dep with its two constraint         *)
(* builders, and of the native search ParseSentences that it calls.  The    *)
(* native search is not among the source files; it is modelled from the    *)
(* design document (sections 4.2 - 4.9) and every definition modelled that  *)
(* way says so.                                                            *)
(*                                                                         *)
(* Scores are log-probabilities.  They are modelled as integers; the       *)
(* float32 rounding of the arrays is not modelled.                         *)
(***************************************************************************)
EXTENDS Integers, Sequences, FiniteSets, TLC

VARIABLES
    inp,     \* the arguments ParseSentences gets for one sentence
    srch,    \* the state of that sentence's search
    doc,     \* a call of _parse_doc_tag_and_dep: parser fields and arguments
    pc,      \* where the call is
    probs,   \* the call's probs list (rebuilt by the constraint loop)
    ccons,   \* c_constraints, one PartialConstraints per sentence
    cres,    \* the vector ParseSentences fills, one slot per sentence
    res,     \* the list the call returns
    err,     \* the exception the call raised, or "none"
    order,   \* the sentences in the order the workers finished them
    ctor,    \* a parser under construction: class, arguments, fields, position
    ids,     \* Cacheable::ids, the process-wide counter
    cache,   \* cache_(), the entries of the map from key to registered object
    threads, \* the threads constructing and registering Cacheable objects
    lock,    \* the thread inside omp critical(RegisterCache), or 0
    objs,    \* the Cacheable objects constructed so far, in order
    calls    \* the RegisterCache calls whose emplace has run, in order

vars == <<inp, srch, doc, pc, probs, ccons, cres, res, err, order, ctor, ids, cache, threads,
          lock, objs, calls>>
srchVars == <<inp, srch>>
docVars == <<doc, pc, probs, ccons, cres, res, err, order>>
parseVars == <<inp, srch, doc, pc, probs, ccons, cres, res, err, order>>
ctorVars == <<ctor>>
cacheVars == <<ids, cache, threads, lock, objs, calls>>

---------------------------------------------------------------------------
(* Bounds of the model *)

\* longest sentence (in tokens) among the inputs
MaxLen == 3
\* largest nbest among the inputs
MaxNBest == 2
\* largest number of sentences in one call
MaxDoc == 2
\* number of threads that construct and register Cacheable objects
MaxThreads == 2
\* number of Cacheable objects constructed
MaxObjects == 3
\* number of RegisterCache calls
MaxCalls == 3

---------------------------------------------------------------------------
(* Small helpers *)

Max(S) == CHOOSE x \in S : \A y \in S : y <= x
Min(S) == CHOOSE x \in S : \A y \in S : x <= y
MinOf(a, b) == IF a <= b THEN a ELSE b
Range(f) == {f[i] : i \in DOMAIN f}

RECURSIVE SumOver(_, _)
SumOver(S, f) ==
    IF S = {} THEN 0
    ELSE LET x == CHOOSE y \in S : TRUE IN f[x] + SumOver(S \ {x}, f)

---------------------------------------------------------------------------
(* Categories.  A category is its string.  Categories are interned; each    *)
(* gets the value of the process-wide counter at its construction as its   *)
(* id, so its id is its place in the order of construction.                *)

AllCats == << "N", "NP", "S[dcl]\\NP", "NP[nb]/N", "S[dcl]/NP",
              "S[dcl]\\S[dcl]", "NP/NP", "S[dcl]", "NP[nb]", "PP", "NP\\NP" >>

\* the orders in which the categories may have been constructed
Reverse(q) == [k \in 1..Len(q) |-> q[Len(q) + 1 - k]]
IdOrders == {AllCats, Reverse(AllCats)}

\* the id of a category: its place in the order of construction
CatId(in, c) == CHOOSE k \in 1..Len(in.interned) : in.interned[k] = c

\* the functional categories: result, direction of the slash, argument
Functors ==
    { [name |-> "S[dcl]\\NP",     res |-> "S[dcl]", fwd |-> FALSE, arg |-> "NP"],
      [name |-> "NP[nb]/N",       res |-> "NP[nb]", fwd |-> TRUE,  arg |-> "N"],
      [name |-> "S[dcl]/NP",      res |-> "S[dcl]", fwd |-> TRUE,  arg |-> "NP"],
      [name |-> "S[dcl]\\S[dcl]", res |-> "S[dcl]", fwd |-> FALSE, arg |-> "S[dcl]"],
      [name |-> "NP/NP",          res |-> "NP",     fwd |-> TRUE,  arg |-> "NP"],
      [name |-> "NP\\NP",         res |-> "NP",     fwd |-> FALSE, arg |-> "NP"] }

\* cat.strip_feat('[X]').strip_feat('[nb]') on the categories of the model
StripFeat(c) ==
    CASE c = "NP[nb]"   -> "NP"
      [] c = "NP[nb]/N" -> "NP/N"
      [] OTHER          -> c

---------------------------------------------------------------------------
(* The native search, ParseSentences, for one sentence.  `in` is the record *)
(* of its arguments (parser.pyx lines 318-335).  Token positions and span   *)
(* starts count from 0 as in the source; TLA+ sequences count from 1.       *)

SentLen(in) == Len(in.sent)
TagIds(in) == 1..Len(in.tag_list)

\* ScoreView: P_tag[i, k] and P_dep[dependent, head]; column 0 of P_dep is ROOT
tag_lp(in, i, k) == in.tags[i + 1][k]
dep_lp(in, dependent, head) == in.deps[dependent + 1][head + 2]
root_lp(in, dependent) == in.deps[dependent + 1][1]

\* HeuristicTable
best_tag(in, i) == Max({tag_lp(in, i, k) : k \in TagIds(in)})
best_dep(in, i) == Max({in.deps[i + 1][h] : h \in 1..(SentLen(in) + 1)})

outside(in, start, length) ==
    LET rest == {i \in 0..(SentLen(in) - 1) : i < start \/ i >= start + length}
    IN SumOver(rest, [i \in rest |-> best_tag(in, i) + best_dep(in, i)])

(* Pruner: dictionary override, beta threshold, top-K, failsafe.  The       *)
(* terminal constraints reach it only through the scores, which             *)
(* build_terminal_constraints has rewritten before the call.                *)

Better(in, i, a, b) ==
    \/ tag_lp(in, i, a) > tag_lp(in, i, b)
    \/ /\ tag_lp(in, i, a) = tag_lp(in, i, b)
       /\ CatId(in, in.tag_list[a]) < CatId(in, in.tag_list[b])

DictCands(in, i) ==
    LET w == in.sent[i + 1]
    IN IF \E e \in in.category_dict : e[1] = w
       THEN {k \in TagIds(in) : <<w, in.tag_list[k]>> \in in.category_dict}
       ELSE TagIds(in)

BetaCands(in, i) ==
    IF in.use_beta
    THEN {k \in DictCands(in, i) : tag_lp(in, i, k) >= in.log_beta + best_tag(in, i)}
    ELSE DictCands(in, i)

TopK(in, i) ==
    LET S == BetaCands(in, i)
    IN {k \in S : Cardinality({j \in S : Better(in, i, j, k)}) < in.pruning_size}

Failsafe(in, i) ==
    {k \in TagIds(in) : \A j \in TagIds(in) : ~Better(in, i, j, k)}

\* the Pruner without the failsafe
PrunerNoFailsafe(in, i) ==
    {[cat |-> in.tag_list[k], lp |-> tag_lp(in, i, k)] : k \in TopK(in, i)}

Pruner(in, i) ==
    LET kept == IF TopK(in, i) = {} THEN Failsafe(in, i) ELSE TopK(in, i)
    IN {[cat |-> in.tag_list[k], lp |-> tag_lp(in, i, k)] : k \in kept}

(* ConstraintSet: a constraint is [cat, start, len], cat = "*" for the      *)
(* wildcard.                                                                *)

Crosses(s1, l1, s2, l2) ==
    \/ s1 < s2 /\ s2 < s1 + l1 /\ s1 + l1 < s2 + l2
    \/ s2 < s1 /\ s1 < s2 + l2 /\ s2 + l2 < s1 + l1

Violates(in, cat, start, length) ==
    \E c \in in.constraints :
        \/ Crosses(start, length, c.start, c.len)
        \/ /\ c.start = start /\ c.len = length
           /\ c.cat # "*"
           /\ cat # c.cat
           /\ <<cat, c.cat>> \notin in.unary_rules

(* RuleApplicator *)

\* categories match up to the [nb] feature
Match(a, b) == StripFeat(a) = StripFeat(b)

\* a combinator of the rule table: its rule and the side of the head child
Combine(comb, left, right) ==
    CASE comb.rule = "fa" ->
           {[cat |-> f.res, comb |-> "fa", head_left |-> comb.head_left] :
               f \in {g \in Functors : g.name = left /\ g.fwd /\ Match(g.arg, right)}}
      [] comb.rule = "ba" ->
           {[cat |-> f.res, comb |-> "ba", head_left |-> comb.head_left] :
               f \in {g \in Functors : g.name = right /\ ~g.fwd /\ Match(g.arg, left)}}
      [] OTHER -> {}

\* the seen-rules filter is on when the set handed over is not empty: the
\* call has no flag, and hands over the empty set when use_seen_rules is off
SeenFilterOn(in) == in.seen_rules # {}

IsSeen(in, left, right) == <<StripFeat(left), StripFeat(right)>> \in in.seen_rules

apply_binary(in, left, right) ==
    IF SeenFilterOn(in) /\ ~IsSeen(in, left, right) THEN {}
    ELSE LET rules == in.binary_rules
             at(k) == Combine(rules[k], left, right)
         IN UNION {{[cat |-> r.cat, comb |-> r.comb, head_left |-> r.head_left,
                     ord |-> k] : r \in {q \in at(k) :
                        \A j \in 1..(k - 1) : \A p \in at(j) : p.cat # q.cat}}
                   : k \in 1..Len(rules)}

apply_unary_unchecked(in, it) ==
    {r[2] : r \in {q \in in.unary_rules : q[1] = it.cat}}

apply_unary(in, it) ==
    IF it.unary THEN {}
    ELSE {p \in {r[2] : r \in {q \in in.unary_rules : q[1] = it.cat}} :
            it.len = SentLen(in) => p \in in.possible_root_cats}

(* Derivation nodes.  Every node is [comb, cat, head, kids]: a leaf has no   *)
(* kids and comb "lex", its head is its position; a unary node has one kid  *)
(* and comb "unary"; a binary node has two and the combinator's name.       *)

Node(comb, cat, head, kids) == [comb |-> comb, cat |-> cat, head |-> head, kids |-> kids]

\* Agenda item / chart entry: a derivation with its span, inside score,
\* priority and insertion counter
Sig(it) == <<it.start, it.len, it.cat>>

Item(in, tree, start, length, inside, unary, id) ==
    [tree |-> tree, cat |-> tree.cat, start |-> start, len |-> length,
     head |-> tree.head, inside |-> inside, unary |-> unary,
     prio |-> inside + outside(in, start, length), id |-> id]

\* DependencyScorer: the edge from the dependent child's head to the head
\* child's head, and the ROOT edge once the node spans the sentence
DepScore(in, left, right, head_left) ==
    LET h == IF head_left THEN left.head ELSE right.head
        d == IF head_left THEN right.head ELSE left.head
    IN dep_lp(in, d, h)
       + (IF left.len + right.len = SentLen(in) THEN root_lp(in, h) ELSE 0)

\* a set of records with distinct integer field `ord`, as a sequence by ord
ByOrd(S) ==
    [k \in 1..Cardinality(S) |->
        CHOOSE x \in S : Cardinality({y \in S : y.ord < x.ord}) = k - 1]

\* Chart.insert: rejected when the cell already holds pruning_size entries
\* with a strictly better inside score
Rejected(in, st, sig, inside) ==
    Cardinality({e \in st.chart : Sig(e) = sig /\ e.inside > inside}) >= in.pruning_size

\* push one candidate; a binary candidate is first inserted in the chart
\* (capacity check), a candidate the chart rejects is not pushed
Push(in, st, c) ==
    LET it == Item(in, c.tree, c.start, c.len, c.inside, c.unary, st.counter)
    IN IF c.insert /\ Rejected(in, st, Sig(it), c.inside)
       THEN st
       ELSE [st EXCEPT !.agenda = @ \cup {it},
                       !.chart = IF c.insert THEN @ \cup {it} ELSE @,
                       !.counter = @ + 1]

\* push the candidates from the k-th on, in order
RECURSIVE PushFrom(_, _, _, _)
PushFrom(in, st, cands, k) ==
    IF k > Len(cands) THEN st
    ELSE CHOOSE r \in {PushFrom(in, nx, cands, k + 1) : nx \in {Push(in, st, cands[k])}} : TRUE

PushAll(in, st, cands) ==
    CHOOSE r \in {PushFrom(in, s0, cs, 1) : s0 \in {st}, cs \in {cands}} : TRUE

\* the lexical items of the sentence: one per token and Pruner candidate
LeafCands(in) ==
    UNION {{[tree |-> Node("lex", c.cat, i, << >>), start |-> i, len |-> 1,
             inside |-> c.lp + (IF SentLen(in) = 1 THEN root_lp(in, i) ELSE 0),
             unary |-> FALSE, insert |-> FALSE,
             ord |-> i * (Len(AllCats) + 1) + CatId(in, c.cat)] :
               c \in {q \in Pruner(in, i) : ~Violates(in, q.cat, i, 1)}}
           : i \in 0..(SentLen(in) - 1)}

\* the unary parents of a finalized item
UnaryCands(in, it) ==
    {[tree |-> Node("unary", p, it.head, <<it.tree>>), start |-> it.start,
      len |-> it.len, inside |-> it.inside, unary |-> TRUE, insert |-> FALSE,
      ord |-> CatId(in, p)] :
        p \in {q \in apply_unary(in, it) : ~Violates(in, q, it.start, it.len)}}

\* the parents of a finalized item with one finalized neighbour
PairCands(in, left, right, nbid) ==
    {[tree |-> Node(r.comb, r.cat, IF r.head_left THEN left.head ELSE right.head,
                    <<left.tree, right.tree>>),
      start |-> left.start, len |-> left.len + right.len,
      inside |-> left.inside + right.inside + DepScore(in, left, right, r.head_left),
      unary |-> FALSE, insert |-> TRUE,
      ord |-> (nbid + 1) * (Len(AllCats) + 1) + r.ord] :
        r \in {q \in apply_binary(in, left.cat, right.cat) :
                 ~Violates(in, q.cat, left.start, left.len + right.len)}}

BinaryCands(in, st, it) ==
    UNION {IF nb.start + nb.len = it.start THEN PairCands(in, nb, it, nb.id)
           ELSE IF it.start + it.len = nb.start THEN PairCands(in, it, nb, nb.id)
           ELSE {} : nb \in st.final}

\* no signature is ever found locked
LockedNever(st, it) == FALSE

Locked(st, it) == \E f \in st.final : Sig(f) = Sig(it)

\* highest priority, the newest among equals
BestItemNewest(st) ==
    CHOOSE it \in st.agenda :
        \A o \in st.agenda :
            o = it \/ it.prio > o.prio \/ (it.prio = o.prio /\ it.id > o.id)

\* Agenda.pop: highest priority, lowest insertion counter among equals
BestItem(st) ==
    CHOOSE it \in st.agenda :
        \A o \in st.agenda :
            o = it \/ it.prio > o.prio \/ (it.prio = o.prio /\ it.id < o.id)

\* the loop condition of the search
Status(in, st) ==
    IF Len(st.out) >= in.nbest THEN "nbest"
    ELSE IF st.agenda = {} THEN "empty"
    ELSE IF st.steps > in.max_steps THEN "steps"
    ELSE "run"

Settle(in, st) == CHOOSE r \in {[s0 EXCEPT !.status = Status(in, s0)] : s0 \in {st}} : TRUE

IsComplete(in, it) == it.len = SentLen(in) /\ it.cat \in in.possible_root_cats

\* the popped item is finalized, a complete one is collected, and unless
\* that was the last parse asked for its parents are pushed
Expand(in, st1, it) ==
    LET st2 == [st1 EXCEPT !.final = @ \cup {it}, !.chart = @ \cup {it}]
        st3 == IF IsComplete(in, it)
               THEN [st2 EXCEPT !.out =
                       Append(@, [tree |-> it.tree, score |-> it.inside])]
               ELSE st2
    IN IF Len(st3.out) >= in.nbest THEN Settle(in, st3)
       ELSE Settle(in, PushAll(in, st3,
               ByOrd(UnaryCands(in, it) \cup BinaryCands(in, st3, it))))

\* one iteration of the search loop
Pop(in, st) ==
    CHOOSE r \in {IF Locked(st, it)
                  THEN Settle(in, [st EXCEPT !.agenda = @ \ {it}, !.steps = @ + 1])
                  ELSE Expand(in, [st EXCEPT !.agenda = @ \ {it}, !.steps = @ + 1], it)
                    : it \in {BestItem(st)}} : TRUE

EmptySearch ==
    [agenda |-> {}, chart |-> {}, final |-> {}, out |-> << >>, steps |-> 0,
     counter |-> 0, status |-> "skipped"]

\* the state the loop starts in; a sentence longer than max_length is skipped
Start(in) ==
    IF SentLen(in) > in.max_length THEN EmptySearch
    ELSE Settle(in, PushAll(in, EmptySearch, ByOrd(LeafCands(in))))

RECURSIVE Run(_, _)
Run(in, st) == IF st.status # "run" THEN st ELSE Run(in, Pop(in, st))

\* what ParseSentences leaves in the sentence's slot
ParseSentence(in) == Run(in, Start(in)).out

---------------------------------------------------------------------------
(* EnglishCCGParser._parse_doc_tag_and_dep.  A call is a record d:          *)
(*   d.parser       the parser's fields (set by __init__)                   *)
(*   d.sents        the sentences, each the sequence of its words           *)
(*                  (sents[i].split(' '))                                   *)
(*   d.probs        per sentence [tag |-> P_tag, dep |-> P_dep], a matrix   *)
(*                  being the sequence of its rows                          *)
(*   d.tag_list     the tag_list argument, << >> for None                   *)
(*   d.constraints  [given |-> is not None, list |-> per sentence the       *)
(*                  sequence of its constraints]; a constraint is           *)
(*                  [arity, cat, start, len], arity 2 for (cat, i) and 3    *)
(*                  for (cat, start, length), cat "None" for no category    *)

\* pseudo_neginf = -10e10.  TLC's integers have 32 bits: scores are scaled so
\* that 1e10 is 100000 (every other score of the inputs is a small integer)
pseudo_neginf == -1000000

Shape(m) == <<Len(m), IF Len(m) = 0 THEN 0 ELSE Len(m[1])>>

\* py_tag_list = tag_list or self.tag_list
PyTagList(d) == IF d.tag_list # << >> THEN d.tag_list ELSE d.parser.tag_list

\* tag_dict[cat]: the index of cat in tag_list (the last one, were it twice)
HasTag(tag_list, cat) == \E k \in 1..Len(tag_list) : tag_list[k] = cat
TagIndex(tag_list, cat) == Max({k \in 1..Len(tag_list) : tag_list[k] = cat})

\* build_terminal_constraints: [err, probs]
RECURSIVE build_terminal_constraints(_, _, _)
build_terminal_constraints(constraints, tag_probs, tag_list) ==
    IF constraints = << >> THEN [err |-> "none", probs |-> tag_probs]
    ELSE LET cx == Head(constraints)
         IN IF ~HasTag(tag_list, cx.cat) THEN [err |-> "KeyError", probs |-> tag_probs]
            ELSE IF cx.start >= Len(tag_probs) THEN [err |-> "IndexError", probs |-> tag_probs]
            ELSE build_terminal_constraints(
                    Tail(constraints),
                    [tag_probs EXCEPT ![cx.start + 1] =
                        [k \in DOMAIN @ |->
                            IF k = TagIndex(tag_list, cx.cat) THEN 0 ELSE pseudo_neginf]],
                    tag_list)

\* build_nonterminal_constraints losing the category: every constraint a
\* wildcard
build_nonterminal_constraints_wildcard(py_constraints) ==
    {[cat |-> "*", start |-> cx.start, len |-> cx.len] : cx \in Range(py_constraints)}

\* build_nonterminal_constraints: the PartialConstraints of one sentence
build_nonterminal_constraints(py_constraints) ==
    {[cat |-> IF cx.cat # "None" THEN cx.cat ELSE "*", start |-> cx.start, len |-> cx.len] :
        cx \in Range(py_constraints)}

OfArity(constraint, n) == SelectSeq(constraint, LAMBDA cx : cx.arity = n)

\* lines 285-300: the constraint loop over zip(constraints, probs);
\* [err, probs, ccons]
RECURSIVE ConstraintLoop(_, _, _, _)
ConstraintLoop(d, i, new_probs, cc) ==
    IF i > MinOf(Len(d.constraints.list), Len(d.probs))
    THEN [err |-> "none", probs |-> new_probs, ccons |-> cc]
    ELSE LET r == build_terminal_constraints(OfArity(d.constraints.list[i], 2),
                                             d.probs[i].tag, PyTagList(d))
         IN IF r.err # "none" THEN [err |-> r.err, probs |-> new_probs, ccons |-> cc]
            ELSE ConstraintLoop(d, i + 1,
                    Append(new_probs, [tag |-> r.probs, dep |-> d.probs[i].dep]),
                    [cc EXCEPT ![i] =
                        build_nonterminal_constraints(OfArity(d.constraints.list[i], 3))])

LoadConstraintsResult(d) ==
    LET none == [i \in 1..Len(d.sents) |-> {}]
    IN IF ~d.constraints.given THEN [err |-> "none", probs |-> d.probs, ccons |-> none]
       ELSE IF Len(d.constraints.list) # Len(d.sents)
            THEN [err |-> "AssertionError", probs |-> d.probs, ccons |-> none]
       ELSE ConstraintLoop(d, 1, << >>, none)

\* the shape check without its second half: P_dep is not looked at
ShapeOkTagOnly(d, prb, i) ==
    Shape(prb[i].tag) = <<Len(d.sents[i]), Len(PyTagList(d))>>

\* lines 302-315: the shape check of sentence i
ShapeOk(d, prb, i) ==
    LET sent_size == Len(d.sents[i])
        tag_size == Len(PyTagList(d))
    IN /\ Shape(prb[i].tag) = <<sent_size, tag_size>>
       /\ Shape(prb[i].dep) = <<sent_size, sent_size + 1>>

\* the conditional of lines 274-275 the wrong way round
SeenRulesArgInverted(d) == IF d.parser.use_seen_rules THEN {} ELSE d.parser.seen_rules

\* convert_seen_rules / the empty set when use_seen_rules is off (274-275)
SeenRulesArg(d) == IF d.parser.use_seen_rules THEN d.parser.seen_rules ELSE {}

\* convert_cat_dict / the empty map when use_category_dict is off (264-266);
\* the dictionary is the set of its <<word, category>> pairs
CategoryDictArg(d) == IF d.parser.use_category_dict THEN d.parser.category_dict ELSE {}

\* the call with max_length and max_steps in each other's place
EngineArgsSwapped(d, prb, cc, i) ==
    [sent |-> d.sents[i], tags |-> prb[i].tag, deps |-> prb[i].dep,
     category_dict |-> CategoryDictArg(d), tag_list |-> PyTagList(d),
     log_beta |-> d.parser.log_beta, use_beta |-> d.parser.use_beta,
     pruning_size |-> d.parser.pruning_size, nbest |-> d.parser.nbest,
     possible_root_cats |-> d.parser.possible_root_cats,
     unary_rules |-> d.parser.unary_rules, seen_rules |-> SeenRulesArg(d),
     binary_rules |-> d.parser.binary_rules, constraints |-> cc[i],
     interned |-> d.interned,
     max_length |-> d.parser.max_steps, max_steps |-> d.parser.max_length]

\* the call with max_steps_ read from self.max_length as well
EngineArgsStepsFromLength(d, prb, cc, i) ==
    [sent |-> d.sents[i], tags |-> prb[i].tag, deps |-> prb[i].dep,
     category_dict |-> CategoryDictArg(d), tag_list |-> PyTagList(d),
     log_beta |-> d.parser.log_beta, use_beta |-> d.parser.use_beta,
     pruning_size |-> d.parser.pruning_size, nbest |-> d.parser.nbest,
     possible_root_cats |-> d.parser.possible_root_cats,
     unary_rules |-> d.parser.unary_rules, seen_rules |-> SeenRulesArg(d),
     binary_rules |-> d.parser.binary_rules, constraints |-> cc[i],
     interned |-> d.interned,
     max_length |-> d.parser.max_length, max_steps |-> d.parser.max_length]

\* the call handing ParseSentences the matrices it was given, not the ones
\* the constraint loop rebuilt
EngineArgsStaleProbs(d, prb, cc, i) ==
    [sent |-> d.sents[i], tags |-> d.probs[i].tag, deps |-> d.probs[i].dep,
     category_dict |-> CategoryDictArg(d), tag_list |-> PyTagList(d),
     log_beta |-> d.parser.log_beta, use_beta |-> d.parser.use_beta,
     pruning_size |-> d.parser.pruning_size, nbest |-> d.parser.nbest,
     possible_root_cats |-> d.parser.possible_root_cats,
     unary_rules |-> d.parser.unary_rules, seen_rules |-> SeenRulesArg(d),
     binary_rules |-> d.parser.binary_rules, constraints |-> cc[i],
     interned |-> d.interned,
     max_length |-> d.parser.max_length, max_steps |-> d.parser.max_steps]

\* the arguments ParseSentences gets, as far as they concern sentence i, and
\* with them the process-wide table of categories the search reads
EngineArgs(d, prb, cc, i) ==
    [sent |-> d.sents[i], tags |-> prb[i].tag, deps |-> prb[i].dep,
     category_dict |-> CategoryDictArg(d), tag_list |-> PyTagList(d),
     log_beta |-> d.parser.log_beta, use_beta |-> d.parser.use_beta,
     pruning_size |-> d.parser.pruning_size, nbest |-> d.parser.nbest,
     possible_root_cats |-> d.parser.possible_root_cats,
     unary_rules |-> d.parser.unary_rules, seen_rules |-> SeenRulesArg(d),
     binary_rules |-> d.parser.binary_rules, constraints |-> cc[i],
     interned |-> d.interned,
     max_length |-> d.parser.max_length, max_steps |-> d.parser.max_steps]

\* the collecting loop putting each pair in front of the list
CollectedReversed(nbest, nodes) ==
    LET m == MinOf(nbest, Len(nodes)) IN [j \in 1..m |-> nodes[m + 1 - j]]

\* lines 339-343: the entry of the returned list for one slot of cres
Collected(nbest, nodes) == SubSeq(nodes, 1, MinOf(nbest, Len(nodes)))

---------------------------------------------------------------------------
(* The inputs of the model *)

TagList == << "N", "NP", "S[dcl]\\NP", "NP[nb]/N", "S[dcl]/NP", "S[dcl]\\S[dcl]",
              "NP/NP" >>

\* the supertagger's row of P_tag for a word, over TagList
TagRow(w) ==
    CASE w = "John"   -> << -1, 0, -20, -20, -20, -20, -20 >>
      [] w = "dog"    -> << 0, -2, -20, -20, -20, -20, -20 >>
      [] w = "runs"   -> << -3, -20, 0, -20, -20, -20, -20 >>
      [] w = "the"    -> << -20, -20, -20, 0, -20, -20, -20 >>
      [] w = "Flying" -> << -20, -2, -20, -20, 0, -20, -1 >>
      [] w = "planes" -> << -1, 0, 0, -20, -20, -20, -20 >>
      [] w = "fast"   -> << -20, -20, -20, -20, -20, 0, -20 >>

Corpus ==
    { s \in { <<"John">>, <<"dog">>,
              <<"John", "runs">>, <<"the", "dog">>, <<"Flying", "planes">>,
              <<"dog", "runs">>,
              <<"the", "dog", "runs">>, <<"Flying", "planes", "fast">>,
              <<"John", "runs", "fast">>,
              <<"the", "dog", "runs", "fast">> } : Len(s) <= MaxLen }

\* a head for every token: 0 for ROOT, j for the j-th token, never itself
HeadVectors(n) == {hv \in [1..n -> 0..n] : \A i \in 1..n : hv[i] # i}

\* P_dep putting each token's mass on its head in hv
DepMatrix(n, hv) == [i \in 1..n |-> [c \in 1..(n + 1) |-> IF c = hv[i] + 1 THEN 0 ELSE -3]]

TagMatrix(sent) == [i \in 1..Len(sent) |-> TagRow(sent[i])]

\* every token depends on the next one, the last on ROOT
ChainHeads(n) == [i \in 1..n |-> IF i = n THEN 0 ELSE i + 1]

SeenAll ==
    { <<"NP", "S[dcl]\\NP">>, <<"NP/N", "N">>, <<"S[dcl]/NP", "NP">>,
      <<"S[dcl]", "S[dcl]\\S[dcl]">>, <<"NP/NP", "NP">> }

\* __init__ with its defaults (lines 67-100), on the grammar of the model
\* the rule tables: forward and backward application, each combinator with
\* its head side.  Backward application is headed by its right child in the
\* default table (the verb heads "John runs"); the tables a caller passes as
\* binary_rules may head each combinator on either side.
Combinator(rule, head_left) == [rule |-> rule, head_left |-> head_left]

en_default_binary_rules == <<Combinator("fa", FALSE), Combinator("ba", FALSE)>>

RuleTables ==
    {en_default_binary_rules,
     <<Combinator("fa", TRUE), Combinator("ba", FALSE)>>,
     <<Combinator("fa", TRUE), Combinator("ba", TRUE)>>}

DefaultParser ==
    [category_dict |-> {}, tag_list |-> TagList, unary_rules |-> {<<"N", "NP">>},
     seen_rules |-> SeenAll, binary_rules |-> en_default_binary_rules,
     log_beta |-> -12, use_beta |-> TRUE, use_category_dict |-> TRUE,
     use_seen_rules |-> TRUE, pruning_size |-> 50, nbest |-> 1,
     possible_root_cats |-> {"S[dcl]", "S[wq]", "S[q]", "S[qem]", "NP"},
     max_length |-> 250, max_steps |-> 100000]

NoConstraints == [given |-> FALSE, list |-> << >>]
Constraints(cons) == [given |-> TRUE, list |-> <<cons>>]

Terminal(cat, i) == [arity |-> 2, cat |-> cat, start |-> i, len |-> 1]
NonTerminal(cat, start, length) == [arity |-> 3, cat |-> cat, start |-> start, len |-> length]

OneSentence(parser, sent, hv, cons) ==
    [parser |-> parser, sents |-> <<sent>>,
     probs |-> <<[tag |-> TagMatrix(sent), dep |-> DepMatrix(Len(sent), hv)]>>,
     tag_list |-> << >>, constraints |-> cons, interned |-> AllCats]

\* every sentence of the corpus under every head assignment and rule table
ScoreDocs ==
    UNION {{OneSentence([DefaultParser EXCEPT !.nbest = nb, !.binary_rules = rt],
                        s, hv, NoConstraints) :
              nb \in 1..MaxNBest, hv \in HeadVectors(Len(s)), rt \in RuleTables}
           : s \in Corpus}

\* the settings of the Pruner: beta, top-K, the dictionary, terminal constraints
PrunerDocs ==
    UNION {{OneSentence([DefaultParser EXCEPT !.use_beta = b[1], !.log_beta = b[2],
                                              !.pruning_size = k,
                                              !.category_dict = cd[2],
                                              !.use_category_dict = cd[1]],
                        s, ChainHeads(Len(s)), tc) :
              b \in {<<FALSE, -12>>, <<TRUE, -12>>, <<TRUE, -2>>},
              k \in {0, 1, 50},
              cd \in {<<TRUE, {}>>, <<TRUE, {<<"John", "NP">>, <<"dog", "N">>}>>,
                      <<TRUE, {<<"John", "PP">>, <<"planes", "S[dcl]\\NP">>}>>,
                      <<FALSE, {<<"John", "PP">>}>>},
              tc \in {NoConstraints, Constraints(<<Terminal("N", 0)>>),
                      Constraints(<<Terminal("S[dcl]\\NP", 0)>>)} \cup
                     {Constraints(<<Terminal("NP", 0), Terminal("S[dcl]\\NP", 1)>>) :
                        x \in {t \in {s} : Len(t) = 2}}}
           : s \in {t \in Corpus : Len(t) <= 2}}

\* the settings of the seen-rules filter
SeenDocs ==
    UNION {{OneSentence([DefaultParser EXCEPT !.use_seen_rules = u, !.seen_rules = sr,
                                              !.nbest = nb],
                        s, ChainHeads(Len(s)), NoConstraints) :
              u \in BOOLEAN, nb \in 1..MaxNBest,
              sr \in {{}, SeenAll, SeenAll \ {<<"NP", "S[dcl]\\NP">>},
                      {<<"S[dcl]/NP", "NP">>}, {<<"NP/N", "N">>}}}
           : s \in Corpus}

\* non-terminal constraints
SpanConstraints(n) ==
    {<<NonTerminal(c, st, l)>> :
        c \in {"None", "NP", "S[dcl]", "N"},
        st \in 0..(n - 1), l \in 1..n} \cup
    {<<NonTerminal("None", 0, 2), NonTerminal("NP", 0, 1)>>}

ConstraintDocs ==
    UNION {{OneSentence([DefaultParser EXCEPT !.nbest = nb], s, ChainHeads(Len(s)),
                        Constraints(cs)) :
              nb \in 1..MaxNBest,
              cs \in {c \in SpanConstraints(Len(s)) :
                        \A k \in 1..Len(c) : c[k].start + c[k].len <= Len(s)}}
           : s \in Corpus}

\* the limits: nbest, max_steps, max_length
LimitDocs ==
    UNION {{OneSentence([DefaultParser EXCEPT !.nbest = nb, !.max_steps = ms,
                                              !.max_length = ml],
                        s, ChainHeads(Len(s)), NoConstraints) :
              nb \in 0..MaxNBest, ms \in {0, 2, 5, 100000}, ml \in {1, 2, 250}}
           : s \in Corpus}

\* a unary-rule table in which the parent of one rule is the child of
\* another, and whose parents are not all root categories
ChainingUnaryRules ==
    {<<"N", "NP">>, <<"NP", "PP">>, <<"NP", "S[dcl]">>, <<"S[dcl]", "PP">>}

UnaryDocs ==
    UNION {{OneSentence([DefaultParser EXCEPT !.unary_rules = ChainingUnaryRules,
                                              !.nbest = nb],
                        s, ChainHeads(Len(s)), NoConstraints) :
              nb \in 1..MaxNBest}
           : s \in Corpus}

\* a sentence with two bracketings, under a tag list of its own
ModifierTagList == << "NP/NP", "NP", "NP\\NP" >>

ChartDocs ==
    {[parser |-> [DefaultParser EXCEPT !.pruning_size = k, !.nbest = nb,
                                       !.use_seen_rules = FALSE, !.binary_rules = rt],
      sents |-> << <<"old", "planes", "here">> >>,
      probs |-> <<[tag |-> << <<0, -20, -20>>, <<-20, 0, -20>>, <<-20, -20, 0>> >>,
                   dep |-> DepMatrix(3, hv)]>>,
      tag_list |-> ModifierTagList, constraints |-> NoConstraints, interned |-> AllCats] :
        k \in {1}, nb \in 1..MaxNBest, hv \in HeadVectors(3),
        rt \in {en_default_binary_rules}}

SearchDocs ==
    ScoreDocs \cup PrunerDocs \cup SeenDocs \cup ConstraintDocs \cup LimitDocs \cup UnaryDocs
    \cup ChartDocs

\* no parser is under construction, no Cacheable object is being made
NoConstruction == ctor = [at |-> "none"]
NoCacheables ==
    /\ ids = 0 /\ cache = << >> /\ threads = << >>
    /\ lock = 0 /\ objs = << >> /\ calls = << >>

---------------------------------------------------------------------------
(* SpecSearch: a call on one sentence whose input passes the checks, the    *)
(* search taken one loop iteration at a time.                               *)

\* entry i taken from the i-th slot filled: the list in completion order
ResultEntryByCompletion(cr, nbest, i) == Collected(nbest, cr[order[i]].nodes)

\* entry i read from the other end of cres
ResultEntryReversed(cr, nbest, i) == Collected(nbest, cr[Len(cr) + 1 - i].nodes)

\* lines 339-343: entry i of the returned list
ResultEntry(cr, nbest, i) == Collected(nbest, cr[i].nodes)

InitSearch ==
    /\ doc \in SearchDocs
    /\ LET r == LoadConstraintsResult(doc)
       IN /\ probs = r.probs
          /\ ccons = r.ccons
          /\ inp = EngineArgs(doc, r.probs, r.ccons, 1)
          /\ srch = Start(EngineArgs(doc, r.probs, r.ccons, 1))
    /\ pc = "parse"
    /\ cres = <<[done |-> FALSE, nodes |-> << >>]>>
    /\ res = << >>
    /\ err = "none"
    /\ order = << >>
    /\ NoConstruction
    /\ NoCacheables

\* one iteration of the search loop
PopStep ==
    /\ pc = "parse"
    /\ srch.status = "run"
    /\ srch' = Pop(inp, srch)
    /\ UNCHANGED <<inp, docVars, ctorVars, cacheVars>>

\* the search has stopped: ParseSentences returns and the call builds its
\* result (lines 337-346)
Return ==
    /\ pc = "parse"
    /\ srch.status # "run"
    /\ cres' = <<[done |-> TRUE, nodes |-> srch.out]>>
    /\ res' = [i \in 1..1 |-> ResultEntry(cres', doc.parser.nbest, i)]
    /\ order' = <<1>>
    /\ pc' = "done"
    /\ UNCHANGED <<inp, srch, doc, probs, ccons, err, ctorVars, cacheVars>>

NextSearch == PopStep \/ Return

SpecSearch == InitSearch /\ [][NextSearch]_vars

\* the loop of a sentence's search runs on until it stops
SpecSearchFair == SpecSearch /\ WF_vars(NextSearch)

---------------------------------------------------------------------------
(* Spec: one call of _parse_doc_tag_and_dep on a document.  ParseSentences  *)
(* hands the sentences to a pool of workers, which finish in any order.     *)

\* a sentence with its matrices and its constraints
Entry(sent, tag, dep, cons) == [sent |-> sent, tag |-> tag, dep |-> dep, cons |-> cons]

GoodEntry(sent, cons) ==
    Entry(sent, TagMatrix(sent), DepMatrix(Len(sent), ChainHeads(Len(sent))), cons)

DocEntries ==
    { GoodEntry(<<"John", "runs">>, << >>),
      GoodEntry(<<"the", "dog", "runs">>, << >>),
      GoodEntry(<<"Flying", "planes">>, << >>),
      \* no derivation reaches a root category
      GoodEntry(<<"the">>, << >>),
      \* P_tag has one row too few
      Entry(<<"John", "runs">>, TagMatrix(<<"John">>), DepMatrix(2, ChainHeads(2)), << >>),
      \* P_dep has no ROOT column
      Entry(<<"dog", "runs">>, TagMatrix(<<"dog", "runs">>),
            [i \in 1..2 |-> <<0, -3>>], << >>),
      \* a terminal constraint on a category outside the tag list
      GoodEntry(<<"dog", "runs">>, <<Terminal("PP", 0)>>),
      GoodEntry(<<"John", "runs">>, <<Terminal("N", 0), NonTerminal("None", 0, 2)>>) }

DocParsers ==
    {[DefaultParser EXCEPT !.nbest = nb, !.max_length = lim[1], !.max_steps = lim[2],
                           !.pruning_size = lim[3]] :
        nb \in 1..MaxNBest,
        lim \in {<<2, 100000, 50>>, <<250, 100000, 50>>, <<250, 4, 50>>,
                 <<250, 100000, 1>>}}

MakeDoc(parser, entries, given, interned) ==
    [parser |-> parser, interned |-> interned,
     sents |-> [i \in 1..Len(entries) |-> entries[i].sent],
     probs |-> [i \in 1..Len(entries) |-> [tag |-> entries[i].tag, dep |-> entries[i].dep]],
     tag_list |-> << >>,
     constraints |-> IF given
                     THEN [given |-> TRUE,
                           list |-> [i \in 1..Len(entries) |-> entries[i].cons]]
                     ELSE NoConstraints]

Docs ==
    {MakeDoc(p, es, g, io) :
        p \in DocParsers, g \in BOOLEAN, io \in IdOrders,
        es \in UNION {[1..n -> DocEntries] : n \in 1..MaxDoc}}

NoSearchInput == [sent |-> << >>]

Init ==
    /\ doc \in Docs
    /\ pc = "constraints"
    /\ probs = doc.probs
    /\ ccons = << >>
    /\ cres = << >>
    /\ res = << >>
    /\ err = "none"
    /\ order = << >>
    /\ inp = NoSearchInput
    /\ srch = EmptySearch
    /\ NoConstruction
    /\ NoCacheables

\* lines 285-300
LoadConstraints ==
    /\ pc = "constraints"
    /\ LET r == LoadConstraintsResult(doc)
       IN IF r.err # "none"
          THEN /\ err' = r.err
               /\ pc' = "raised"
               /\ UNCHANGED <<probs, ccons>>
          ELSE /\ probs' = r.probs
               /\ ccons' = r.ccons
               /\ pc' = "shapes"
               /\ err' = err
    /\ UNCHANGED <<doc, cres, res, order, srchVars, ctorVars, cacheVars>>

\* lines 302-315
CheckShapes ==
    /\ pc = "shapes"
    /\ IF \E i \in 1..Len(probs) : ~ShapeOk(doc, probs, i)
       THEN /\ err' = "RuntimeError"
            /\ pc' = "raised"
            /\ cres' = cres
       ELSE /\ cres' = [i \in 1..Len(doc.sents) |-> [done |-> FALSE, nodes |-> << >>]]
            /\ pc' = "parse"
            /\ err' = err
    /\ UNCHANGED <<doc, probs, ccons, res, order, srchVars, ctorVars, cacheVars>>

\* lines 318-335: a worker parses sentence i and fills its slot
Worker(i) ==
    /\ pc = "parse"
    /\ i \in 1..Len(cres)
    /\ ~cres[i].done
    /\ cres' = [cres EXCEPT ![i] =
                  [done |-> TRUE, nodes |-> ParseSentence(EngineArgs(doc, probs, ccons, i))]]
    /\ order' = Append(order, i)
    /\ UNCHANGED <<doc, pc, probs, ccons, res, err, srchVars, ctorVars, cacheVars>>

\* lines 337-346
Collect ==
    /\ pc = "parse"
    /\ \A i \in 1..Len(cres) : cres[i].done
    /\ res' = [i \in 1..Len(doc.sents) |-> ResultEntry(cres, doc.parser.nbest, i)]
    /\ pc' = "done"
    /\ UNCHANGED <<doc, probs, ccons, cres, err, order, srchVars, ctorVars, cacheVars>>

Next ==
    \/ LoadConstraints
    \/ CheckShapes
    \/ \E i \in 1..MaxDoc : Worker(i)
    \/ Collect

Spec == Init /\ [][Next]_vars

---------------------------------------------------------------------------
(* Properties of the document-level call (Spec) *)

DocSize == Len(doc.sents)

\* the constraints given for sentence i
GivenConstraints(d, i) ==
    IF d.constraints.given /\ i <= Len(d.constraints.list)
    THEN d.constraints.list[i] ELSE << >>

\* sentence i's matrices disagree with its length
WrongShape(d, i) ==
    \/ Len(d.probs[i].tag) # Len(d.sents[i])
    \/ Len(d.probs[i].dep) # Len(d.sents[i])
    \/ \E r \in Range(d.probs[i].tag) : Len(r) # Len(PyTagList(d))
    \/ \E r \in Range(d.probs[i].dep) : Len(r) # Len(d.sents[i]) + 1

\* a terminal constraint of sentence i names a category outside the tag list
UnknownCategory(d, i) ==
    \E cx \in Range(GivenConstraints(d, i)) :
        cx.arity = 2 /\ \A k \in 1..Len(PyTagList(d)) : PyTagList(d)[k] # cx.cat

InputRejected(d, i) == WrongShape(d, i) \/ UnknownCategory(d, i)

\* the call on sentence i alone
Alone(d, i) ==
    [d EXCEPT !.sents = <<d.sents[i]>>, !.probs = <<d.probs[i]>>,
              !.constraints = IF d.constraints.given
                              THEN Constraints(d.constraints.list[i]) ELSE @]

\* what the call on a one-sentence document returns for its sentence
AloneResult(d) ==
    LET r == LoadConstraintsResult(d)
        out == ParseSentence(EngineArgs(d, r.probs, r.ccons, 1))
    IN SubSeq(out, 1, MinOf(d.parser.nbest, Len(out)))

C1_WitnessReturned ==
    /\ pc = "done"
    /\ DocSize = 2
    /\ res[1] = << >>
    /\ res[2] # << >>

\* C4: the returned list has one entry per sentence and entry i holds the
\* parses of sentence i, in whatever order the workers finished.
C4_AlignedToInput ==
    pc = "done" =>
        /\ Len(res) = DocSize
        /\ \A i \in 1..DocSize :
             LET out == ParseSentence(EngineArgs(doc, probs, ccons, i))
             IN res[i] = SubSeq(out, 1, MinOf(doc.parser.nbest, Len(out)))

\* the second sentence was finished first, and the two entries differ
C4_Witness ==
    /\ pc = "done"
    /\ order = <<2, 1>>
    /\ res[1] # << >> /\ res[2] # << >> /\ res[1] # res[2]

\* sentence i parsed by a parser that skips nothing
Unlimited(d) == [d EXCEPT !.parser.max_length = 250]

\* C8: a sentence longer than max_length is skipped (empty entry, no error);
\* a sentence of at most max_length tokens, in particular one of exactly
\* max_length, is parsed as it is without the limit.
C8_LongSentenceSkipped ==
    pc = "done" =>
        /\ err = "none"
        /\ \A i \in 1..DocSize :
             IF Len(doc.sents[i]) > doc.parser.max_length
             THEN res[i] = << >>
             ELSE res[i] = AloneResult(Unlimited(Alone(doc, i)))

\* a sentence of three tokens skipped beside one of exactly max_length = 2
\* tokens that was parsed
C8_Witness ==
    /\ pc = "done"
    /\ doc.parser.max_length = 2
    /\ DocSize = 2
    /\ Len(doc.sents[1]) = 3 /\ res[1] = << >>
    /\ AloneResult(Unlimited(Alone(doc, 1))) # << >>
    /\ Len(doc.sents[2]) = 2 /\ res[2] # << >>

---------------------------------------------------------------------------
(* Properties of one sentence's search (SpecSearch) *)

RECURSIVE TreeLen(_)
TreeLen(t) ==
    IF Len(t.kids) = 0 THEN 1
    ELSE IF Len(t.kids) = 1 THEN TreeLen(t.kids[1])
    ELSE TreeLen(t.kids[1]) + TreeLen(t.kids[2])

\* the nodes of a tree whose span starts at `start`, each with its span
RECURSIVE TreeNodes(_, _)
TreeNodes(t, start) ==
    {[node |-> t, start |-> start, len |-> TreeLen(t)]} \cup
    (IF Len(t.kids) = 0 THEN {}
     ELSE IF Len(t.kids) = 1 THEN TreeNodes(t.kids[1], start)
     ELSE TreeNodes(t.kids[1], start)
          \cup TreeNodes(t.kids[2], start + TreeLen(t.kids[1])))

\* the returned trees of the sentence
Returned == IF pc = "done" THEN {res[1][j].tree : j \in 1..Len(res[1])} ELSE {}

\* every derivation the grammar builds over a span from the Pruner's
\* candidates, as [tree, cat, head, start, len, inside, unary]
AsDeriv(c) ==
    [tree |-> c.tree, cat |-> c.tree.cat, head |-> c.tree.head, start |-> c.start,
     len |-> c.len, inside |-> c.inside, unary |-> c.unary]

RECURSIVE Derivs(_, _, _)
Derivs(in, s, l) ==
    LET base ==
          IF l = 1
          THEN {AsDeriv(c) : c \in {q \in LeafCands(in) : q.start = s}}
          ELSE UNION {UNION {UNION {{AsDeriv(c) : c \in PairCands(in, x, y, 0)}
                                      : y \in Derivs(in, s + k, l - k)}
                               : x \in Derivs(in, s, k)} : k \in 1..(l - 1)}
    IN base \cup UNION {{AsDeriv(c) : c \in UnaryCands(in, d)} : d \in base}

CompleteDerivs(in) == {d \in Derivs(in, 0, SentLen(in)) : IsComplete(in, d)}

\* C2 as claimed: with nbest = 1, the parse the search returns has the
\* highest total score among the derivations of the whole sentence with an
\* admissible root category.
C2_FirstParseOptimal ==
    (pc = "done" /\ inp.nbest = 1 /\ res[1] # << >>)
        => \A d \in CompleteDerivs(inp) : d.inside <= res[1][1].score

Sorted(r) == \A j, k \in 1..Len(r) : j < k => r[j].score >= r[k].score
Distinct(r) == \A j, k \in 1..Len(r) : j < k => r[j].tree # r[k].tree

\* C3: the returned list holds at most nbest pairs, in non-increasing order
\* of score, no tree twice; so does the list the search has collected so far.
C3_ResultListOrdered ==
    /\ Len(srch.out) <= inp.nbest /\ Sorted(srch.out) /\ Distinct(srch.out)
    /\ pc = "done" =>
         /\ Len(res[1]) <= doc.parser.nbest
         /\ Sorted(res[1])
         /\ Distinct(res[1])

\* two parses returned, the second with a strictly lower score
C3_Witness ==
    /\ pc = "done"
    /\ Len(res[1]) = 2
    /\ res[1][1].score > res[1][2].score

\* the (category, position) leaves of a tree
Leaves(t) == {<<nd.start, nd.node.cat>> : nd \in {x \in TreeNodes(t, 0) : x.node.comb = "lex"}}

TerminalConstraints(d) == {cx \in Range(GivenConstraints(d, 1)) : cx.arity = 2}

\* C5 as claimed: a terminal constraint (c, i) leaves token i the single
\* candidate c with score 0, whatever use_beta, pruning_size and the
\* dictionary are, and every returned tree has c at leaf i.
C5_TerminalConstraintForces ==
    \A cx \in TerminalConstraints(doc) :
        /\ Pruner(inp, cx.start) = {[cat |-> cx.cat, lp |-> 0]}
        /\ \A t \in Returned : <<cx.start, cx.cat>> \in Leaves(t)

\* the pairs of children of the binary nodes of a tree
ChildPairs(t) ==
    {<<nd.node.kids[1].cat, nd.node.kids[2].cat>> :
        nd \in {x \in TreeNodes(t, 0) : Len(x.node.kids) = 2}}

\* C6 as claimed: with use_seen_rules on, apply_binary is empty for every
\* pair whose normalized form is not in the seen-rules set, the empty set
\* included, and no returned tree has a binary node over such a pair.
C6_UnseenPairsRejected ==
    doc.parser.use_seen_rules =>
        /\ \A l, r \in Range(AllCats) :
             <<StripFeat(l), StripFeat(r)>> \notin doc.parser.seen_rules
                => apply_binary(inp, l, r) = {}
        /\ \A t \in Returned : \A pr \in ChildPairs(t) :
             <<StripFeat(pr[1]), StripFeat(pr[2])>> \in doc.parser.seen_rules

SpanConstraintsOf(d) == {cx \in Range(GivenConstraints(d, 1)) : cx.arity = 3}

\* a node respects the constraints: its span crosses none, and on the span
\* of a constraint with a category it has that category or one a unary rule
\* takes to it
Respects(d, nd) ==
    \A cx \in SpanConstraintsOf(d) :
        /\ ~Crosses(nd.start, nd.len, cx.start, cx.len)
        /\ (cx.start = nd.start /\ cx.len = nd.len /\ cx.cat # "None")
             => \/ nd.node.cat = cx.cat
                \/ <<nd.node.cat, cx.cat>> \in d.parser.unary_rules

SearchStopsWhenDue ==
    /\ srch.status = "run" <=>
         /\ Len(doc.sents[1]) <= doc.parser.max_length
         /\ Len(srch.out) < doc.parser.nbest
         /\ srch.agenda # {}
         /\ srch.steps <= doc.parser.max_steps
    /\ pc = "done" => err = "none" /\ res[1] = srch.out

\* C9: the search of every sentence terminates, and stops when it is due.
C9_SearchTerminates == <>(pc = "done") /\ []SearchStopsWhenDue

\* the step limit stopped a search that had collected one of the two parses
\* asked for, and that parse was returned
C9_Witness ==
    /\ pc = "done"
    /\ srch.status = "steps"
    /\ srch.agenda # {}
    /\ Len(res[1]) = 1 /\ doc.parser.nbest = 2

Tokens(in) == 0..(SentLen(in) - 1)

\* C10: the Pruner gives every token at least one candidate; when the
\* filters leave none it gives the single best category of the row.
C10_PrunerNeverEmpty ==
    \A i \in Tokens(inp) :
        /\ Pruner(inp, i) # {}
        /\ TopK(inp, i) = {} =>
             \E k \in TagIds(inp) :
                /\ Pruner(inp, i) = {[cat |-> inp.tag_list[k], lp |-> tag_lp(inp, i, k)]}
                /\ \A j \in TagIds(inp) : tag_lp(inp, i, j) <= tag_lp(inp, i, k)

\* the dictionary entry of a token is disjoint from the tag list, the
\* filters left no candidate, and the sentence was parsed from the failsafe
C10_Witness ==
    /\ pc = "done"
    /\ res[1] # << >>
    /\ \E i \in Tokens(inp) :
         /\ \E e \in inp.category_dict : e[1] = inp.sent[i + 1]
         /\ DictCands(inp, i) = {}
         /\ TopK(inp, i) = {}

\* the score of a tree recomputed from the matrices prb of its sentence: the
\* lexical score of every leaf and, at every binary node, the edge from the
\* head of the dependent child to the head of the head child
RECURSIVE TreeScore(_, _, _)
TreeScore(prb, tag_list, t) ==
    IF Len(t.kids) = 0 THEN prb.tag[t.head + 1][TagIndex(tag_list, t.cat)]
    ELSE IF Len(t.kids) = 1 THEN TreeScore(prb, tag_list, t.kids[1])
    ELSE LET dependent == IF t.kids[1].head = t.head THEN t.kids[2].head
                          ELSE t.kids[1].head
         IN TreeScore(prb, tag_list, t.kids[1]) + TreeScore(prb, tag_list, t.kids[2])
            + prb.dep[dependent + 1][t.head + 2]

\* C11: the score of every returned pair is the sum of the lexical scores of
\* the tree's leaves, the dependency score of each binary node and the ROOT
\* edge of the root's head; unary nodes add nothing.  The scores are those of
\* the matrices after the terminal constraints were written into them.
C11_ScoreIsSum ==
    pc = "done" =>
        \A j \in 1..Len(res[1]) :
            res[1][j].score =
                TreeScore(probs[1], PyTagList(doc), res[1][j].tree)
                + probs[1].dep[res[1][j].tree.head + 1][1]

\* a returned tree with a unary and a binary node, a leaf forced by a
\* terminal constraint, and a score that is not 0
C11_Witness ==
    /\ pc = "done"
    /\ res[1] # << >>
    /\ TerminalConstraints(doc) # {}
    /\ res[1][1].score < 0
    /\ \E nd \in TreeNodes(res[1][1].tree, 0) : Len(nd.node.kids) = 1
    /\ \E nd \in TreeNodes(res[1][1].tree, 0) : Len(nd.node.kids) = 2

\* what the call returns for a batch when the sentences are parsed one
\* after another
SequentialResult(d) ==
    LET r == LoadConstraintsResult(d)
    IN [i \in 1..Len(d.sents) |->
          Collected(d.parser.nbest, ParseSentence(EngineArgs(d, r.probs, r.ccons, i)))]

WithSeenRules(use) ==
    EngineArgs([doc EXCEPT !.parser.use_seen_rules = use], probs, ccons, 1)

\* C13: every complete derivation there is with use_seen_rules on, and so
\* every parse returned with it on, is a complete derivation with it off.
C13_SeenRulesOnlyRemove ==
    /\ srch.steps = 0 =>
         CompleteDerivs(WithSeenRules(TRUE)) \subseteq CompleteDerivs(WithSeenRules(FALSE))
    /\ (pc = "done" /\ doc.parser.use_seen_rules) =>
         \A j \in 1..Len(res[1]) :
            \E d \in CompleteDerivs(WithSeenRules(FALSE)) :
                d.tree = res[1][j].tree /\ d.inside = res[1][j].score

\* a sentence parsed with the filter on, which has a complete derivation
\* with the filter off that it has not with it on
C13_Witness ==
    /\ pc = "done"
    /\ doc.parser.use_seen_rules
    /\ res[1] # << >>
    /\ CompleteDerivs(WithSeenRules(TRUE)) # CompleteDerivs(WithSeenRules(FALSE))

---------------------------------------------------------------------------
(* SpecCtor: the construction of a parser, EnglishCCGParser.__init__ (lines *)
(* 67-100) and JapaneseCCGParser.__init__ (lines 350-405), one group of     *)
(* statements at a time, and the first use of the fields by a parse (lines  *)
(* 271-273).  An optional argument is << >> for None and <<x>> for x.  An   *)
(* element of a list of root categories is either a str or a Category:      *)
(* [parsed, name].                                                          *)

None == << >>
Some(x) == <<x>>

Str(name) == [parsed |-> FALSE, name |-> name]

\* Category.parse
Category_parse(c) == [parsed |-> TRUE, name |-> c.name]

\* [Category.parse(cat) if not isinstance(cat, Category) else cat for cat in ...]
ParseAll(cats) ==
    [k \in 1..Len(cats) |-> IF ~cats[k].parsed THEN Category_parse(cats[k]) ELSE cats[k]]

\* Python's truth value of an optional list: None and [] are false
Truthy(opt) == opt # None /\ opt[1] # << >>

ja_default_binary_rules == <<Combinator("ja_fa", FALSE), Combinator("ja_ba", FALSE)>>

en_default_root_cats ==
    <<Str("S[dcl]"), Str("S[wq]"), Str("S[q]"), Str("S[qem]"), Str("NP")>>

ja_default_root_cats ==
    <<Str("NP[case=nc,mod=nm,fin=f]"), Str("NP[case=nc,mod=nm,fin=t]"),
      Str("S[mod=nm,form=attr,fin=t]"), Str("S[mod=nm,form=base,fin=f]"),
      Str("S[mod=nm,form=base,fin=t]"), Str("S[mod=nm,form=cont,fin=f]"),
      Str("S[mod=nm,form=cont,fin=t]"), Str("S[mod=nm,form=da,fin=f]"),
      Str("S[mod=nm,form=da,fin=t]"), Str("S[mod=nm,form=hyp,fin=t]"),
      Str("S[mod=nm,form=imp,fin=f]"), Str("S[mod=nm,form=imp,fin=t]"),
      Str("S[mod=nm,form=r,fin=t]"), Str("S[mod=nm,form=s,fin=t]"),
      Str("S[mod=nm,form=stem,fin=f]"), Str("S[mod=nm,form=stem,fin=t]")>>

\* the arguments both constructors store as they are
PlainFields(p) ==
    [category_dict |-> p.category_dict, tag_list |-> p.tag_list,
     unary_rules |-> p.unary_rules, seen_rules |-> p.seen_rules,
     log_beta |-> p.log_beta, use_beta |-> p.use_beta,
     use_category_dict |-> p.use_category_dict, use_seen_rules |-> p.use_seen_rules,
     pruning_size |-> p.pruning_size, nbest |-> p.nbest,
     max_length |-> p.max_length, max_steps |-> p.max_steps]

CtorArgs ==
    {[binary_rules |-> br, possible_root_cats |-> rc, plain |-> PlainFields(p)] :
        br \in {None, Some(<< >>)} \cup {Some(rt) : rt \in RuleTables \cup {ja_default_binary_rules}},
        rc \in {None, Some(<<Str("S[dcl]"), Str("NP")>>),
                Some(<<Category_parse(Str("S[dcl]")), Str("NP")>>),
                Some(<<Category_parse(Str("NP[case=nc,mod=nm,fin=f]"))>>)},
        p \in DocParsers}

\* the fields of a cdef class before __init__ has set them
FreshObject ==
    [binary_rules |-> None, possible_root_cats |-> None, plain |-> None,
     tagger |-> None, lang |-> None]

InitCtor ==
    /\ ctor \in {[at |-> "rules", cls |-> c, args |-> a, possible_root_cats |-> a.possible_root_cats,
                  self |-> FreshObject, read |-> None] :
                    c \in {"EnglishCCGParser", "JapaneseCCGParser"}, a \in CtorArgs}
    /\ doc = [sents |-> << >>]
    /\ pc = "none"
    /\ probs = << >>
    /\ ccons = << >>
    /\ cres = << >>
    /\ res = << >>
    /\ err = "none"
    /\ order = << >>
    /\ inp = NoSearchInput
    /\ srch = EmptySearch
    /\ NoCacheables

\* line 82
EnRules ==
    /\ ctor.at = "rules" /\ ctor.cls = "EnglishCCGParser"
    /\ ctor' = [ctor EXCEPT !.at = "roots",
                  !.self.binary_rules = IF Truthy(ctor.args.binary_rules)
                                        THEN ctor.args.binary_rules
                                        ELSE Some(en_default_binary_rules)]
    /\ UNCHANGED <<parseVars, cacheVars>>

\* lines 83-84
EnDefaultRoots ==
    /\ ctor.at = "roots" /\ ctor.cls = "EnglishCCGParser"
    /\ ctor' = [ctor EXCEPT !.at = "parse_roots",
                  !.possible_root_cats = IF @ = None THEN Some(en_default_root_cats) ELSE @]
    /\ UNCHANGED <<parseVars, cacheVars>>

\* lines 85-86
EnParseRoots ==
    /\ ctor.at = "parse_roots" /\ ctor.cls = "EnglishCCGParser"
    /\ ctor' = [ctor EXCEPT !.at = "fields",
                  !.self.possible_root_cats = Some(ParseAll(ctor.possible_root_cats[1]))]
    /\ UNCHANGED <<parseVars, cacheVars>>

\* lines 87-100
EnFields ==
    /\ ctor.at = "fields" /\ ctor.cls = "EnglishCCGParser"
    /\ ctor' = [ctor EXCEPT !.at = "constructed",
                  !.self.plain = Some(ctor.args.plain),
                  !.self.lang = Some("en")]
    /\ UNCHANGED <<parseVars, cacheVars>>

\* lines 366-367
JaRules ==
    /\ ctor.at = "rules" /\ ctor.cls = "JapaneseCCGParser"
    /\ ctor' = [ctor EXCEPT !.at = "roots",
                  !.self.binary_rules = IF ctor.args.binary_rules = None
                                        THEN Some(ja_default_binary_rules) ELSE @]
    /\ UNCHANGED <<parseVars, cacheVars>>

\* lines 368-386
JaDefaultRoots ==
    /\ ctor.at = "roots" /\ ctor.cls = "JapaneseCCGParser"
    /\ ctor' = [ctor EXCEPT !.at = "parse_roots",
                  !.possible_root_cats = IF @ = None THEN Some(ja_default_root_cats) ELSE @]
    /\ UNCHANGED <<parseVars, cacheVars>>

\* lines 388-389
JaParseRoots ==
    /\ ctor.at = "parse_roots" /\ ctor.cls = "JapaneseCCGParser"
    /\ ctor' = [ctor EXCEPT !.at = "fields",
                  !.self.possible_root_cats = Some(ParseAll(ctor.possible_root_cats[1]))]
    /\ UNCHANGED <<parseVars, cacheVars>>

\* lines 390-405: among the fields, binary_rules is set from the argument
\* (line 394) and possible_root_cats from the local variable (line 401)
JaFields ==
    /\ ctor.at = "fields" /\ ctor.cls = "JapaneseCCGParser"
    /\ ctor' = [ctor EXCEPT !.at = "constructed",
                  !.self.plain = Some(ctor.args.plain),
                  !.self.binary_rules = ctor.args.binary_rules,
                  !.self.possible_root_cats = ctor.possible_root_cats,
                  !.self.lang = Some("en")]
    /\ UNCHANGED <<parseVars, cacheVars>>

\* lines 271-273: a parse reads the rule table and the root categories
ReadRules ==
    /\ ctor.at = "constructed"
    /\ ctor' = [ctor EXCEPT !.at = "parsing",
                  !.read = Some([binary_rules |-> ctor.self.binary_rules,
                                 possible_root_cats |-> ctor.self.possible_root_cats])]
    /\ UNCHANGED <<parseVars, cacheVars>>

NextCtor ==
    \/ EnRules \/ EnDefaultRoots \/ EnParseRoots \/ EnFields
    \/ JaRules \/ JaDefaultRoots \/ JaParseRoots \/ JaFields
    \/ ReadRules

SpecCtor == InitCtor /\ [][NextCtor]_vars

Constructed == ctor.at \in {"constructed", "parsing"}

\* the defaults of the class, the root categories parsed
DefaultRules(cls) ==
    IF cls = "JapaneseCCGParser" THEN ja_default_binary_rules ELSE en_default_binary_rules
DefaultRoots(cls) ==
    ParseAll(IF cls = "JapaneseCCGParser" THEN ja_default_root_cats ELSE en_default_root_cats)

\* C14 as claimed: a parser of either class constructed without binary_rules
\* and possible_root_cats holds its class's default rule table and default
\* root categories, parsed, and a parse reads them; every other field is
\* what the argument was, for both classes alike.
C14_DefaultsHeld ==
    (Constructed /\ ctor.args.binary_rules = None /\ ctor.args.possible_root_cats = None) =>
        /\ ctor.self.binary_rules = Some(DefaultRules(ctor.cls))
        /\ ctor.self.possible_root_cats = Some(DefaultRoots(ctor.cls))
        /\ ctor.self.plain = Some(ctor.args.plain)
        /\ ctor.at = "parsing" =>
             ctor.read = Some([binary_rules |-> Some(DefaultRules(ctor.cls)),
                               possible_root_cats |-> Some(DefaultRoots(ctor.cls))])

---------------------------------------------------------------------------
(* The chart and the agenda during one sentence's search (SpecSearch) *)

\* the item the step from this state to the next takes off the agenda
Popped == srch.agenda \ srch'.agenda

\* the step discards: nothing but the agenda and the step count changes
Discards ==
    /\ srch'.final = srch.final
    /\ srch'.chart = srch.chart
    /\ srch'.out = srch.out
    /\ srch'.counter = srch.counter
    /\ srch'.agenda \subseteq srch.agenda

FinalizedOnce == \A f, g \in srch.final : Sig(f) = Sig(g) => f = g

PoppedLockedIsDiscarded ==
    (srch' # srch /\ \E it \in Popped : \E f \in srch.final : Sig(f) = Sig(it)) => Discards

\* C15: every signature (start, length, category) is finalized at most once,
\* and a step that pops an item whose signature is already finalized changes
\* nothing but the agenda: the item is not finalized, emitted or expanded.
C15_LockOnce == [](FinalizedOnce) /\ [][PoppedLockedIsDiscarded]_vars

\* an item was popped and discarded: more pops than finalized items
C15_Witness ==
    /\ srch.final # {}
    /\ srch.steps > Cardinality(srch.final)

\* the trees the search holds or has returned, each with its start
HeldTrees ==
    {[tree |-> it.tree, start |-> it.start] : it \in srch.agenda \cup srch.chart \cup srch.final}
    \cup {[tree |-> srch.out[j].tree, start |-> 0] : j \in 1..Len(srch.out)}
    \cup {[tree |-> t, start |-> 0] : t \in Returned}

IsUnary(t) == Len(t.kids) = 1

NoUnaryChain(t, start) ==
    \A n \in TreeNodes(t, start) :
        /\ IsUnary(n.node) => ~IsUnary(n.node.kids[1])
        /\ (IsUnary(n.node) /\ n.start = 0 /\ n.len = SentLen(inp)) =>
              n.node.cat \in inp.possible_root_cats

\* C16: no tree on the agenda, in the chart or returned has a unary node
\* whose child is a unary node, nor a unary node over the whole sentence
\* whose category is not an admissible root.
C16_NoUnaryChains == \A h \in HeldTrees : NoUnaryChain(h.tree, h.start)

\* a unary item was finalized whose category has a unary rule, an item over
\* the whole sentence was finalized one of whose unary parents is no root,
\* and a tree with a unary node was returned
C16_Witness ==
    /\ \E f \in srch.final : f.unary /\ \E r \in inp.unary_rules : r[1] = f.cat
    /\ \E f \in srch.final :
          /\ ~f.unary /\ f.len = SentLen(inp)
          /\ \E r \in inp.unary_rules : r[1] = f.cat /\ r[2] \notin inp.possible_root_cats
    /\ \E t \in Returned : \E n \in TreeNodes(t, 0) : IsUnary(n.node)

UniqueCounters == \A a, b \in srch.agenda : a.id = b.id => a = b

PopsBest ==
    srch' # srch =>
        /\ Cardinality(Popped) = 1
        /\ \A it \in Popped : \A o \in srch.agenda :
              /\ o.prio <= it.prio
              /\ (o.prio = it.prio) => it.id <= o.id

\* C17: a pop takes exactly one item off the agenda, of maximum priority
\* among the items on the agenda, and of the lowest insertion counter among
\* those of that priority; insertion counters on the agenda are distinct.
C17_AgendaOrder == [](UniqueCounters) /\ [][PopsBest]_vars

\* two lexical items of equal priority were on the agenda together, and the
\* one pushed first has been popped while the other waits
C17_Witness ==
    \E f \in srch.final : \E o \in srch.agenda :
        /\ Len(f.tree.kids) = 0 /\ Len(o.tree.kids) = 0
        /\ f.prio = o.prio /\ f.id < o.id

Cell(sig) == {e \in srch.chart : Sig(e) = sig}

\* C18 as claimed: every chart cell holds at most pruning_size derivations
\* and the chart at most sent_len^2 * pruning_size.
C18_ChartBounded ==
    /\ \A e \in srch.chart : Cardinality(Cell(Sig(e))) <= inp.pruning_size
    /\ Cardinality(srch.chart) <= SentLen(inp) * SentLen(inp) * inp.pruning_size

---------------------------------------------------------------------------
(* SpecCache: threads that construct Cacheable objects and register them    *)
(* (src/unnamed/part_000).  An object is known by its place in objs; a      *)
(* thread is [at, obj, key, found].  The emplace of line 17 looks the key   *)
(* up and then inserts, two steps inside the critical section.              *)

Threads == 1..MaxThreads
Keys == {"NP", "S[dcl]"}

Idle == [at |-> "idle", obj |-> 0, key |-> "", found |-> FALSE]

\* id_ = ids++ without the increment
CaptureWithoutIncrement(counter) == [id_ |-> counter, ids |-> counter]

\* line 12 under omp atomic capture: id_ = ids++
AtomicCapture(counter) == [id_ |-> counter, ids |-> counter + 1]

\* the critical section is entered whoever is in it
CanEnterAlways(t) == TRUE

\* line 16, omp critical(RegisterCache): one thread at a time
CanEnter(t) == lock = 0

\* line 17, emplace: is there an entry under the key
HasKey(entries, key) == \E k \in 1..Len(entries) : entries[k].key = key

\* line 17, emplace: an entry is added unless one is there
Emplaced(entries, found, key, obj) ==
    IF found THEN entries ELSE Append(entries, [key |-> key, obj |-> obj])

InitCache ==
    /\ ids = 0
    /\ cache = << >>
    /\ threads = [t \in Threads |-> Idle]
    /\ lock = 0
    /\ objs = << >>
    /\ calls = << >>
    /\ doc = [sents |-> << >>]
    /\ pc = "none"
    /\ probs = << >>
    /\ ccons = << >>
    /\ cres = << >>
    /\ res = << >>
    /\ err = "none"
    /\ order = << >>
    /\ inp = NoSearchInput
    /\ srch = EmptySearch
    /\ NoConstruction

\* the calls of RegisterCache made so far
CallsMade ==
    Len(calls) + Cardinality({t \in Threads : threads[t].at \in {"waiting", "lookup", "insert"}})

\* lines 10-13: the constructor
Construct(t) ==
    /\ threads[t].at = "idle"
    /\ Len(objs) < MaxObjects
    /\ LET r == AtomicCapture(ids)
       IN /\ ids' = r.ids
          /\ objs' = Append(objs, [id_ |-> r.id_, by |-> t])
    /\ threads' = [threads EXCEPT ![t] = [Idle EXCEPT !.at = "constructed",
                                                       !.obj = Len(objs) + 1]]
    /\ UNCHANGED <<cache, lock, calls, parseVars, ctorVars>>

\* line 15: RegisterCache(key) is called on the thread's object, or on an
\* object another thread made
Call(t) ==
    /\ threads[t].at \in {"idle", "constructed"}
    /\ CallsMade < MaxCalls
    /\ \E key \in Keys : \E o \in 1..Len(objs) :
          /\ threads[t].at = "constructed" => o = threads[t].obj
          /\ threads' = [threads EXCEPT ![t] = [Idle EXCEPT !.at = "waiting",
                                                             !.obj = o, !.key = key]]
    /\ UNCHANGED <<ids, cache, lock, objs, calls, parseVars, ctorVars>>

\* line 16: the thread enters the critical section
Enter(t) ==
    /\ threads[t].at = "waiting"
    /\ CanEnter(t)
    /\ lock' = t
    /\ threads' = [threads EXCEPT ![t].at = "lookup"]
    /\ UNCHANGED <<ids, cache, objs, calls, parseVars, ctorVars>>

\* line 17: emplace looks the key up
Lookup(t) ==
    /\ threads[t].at = "lookup"
    /\ threads' = [threads EXCEPT ![t].at = "insert",
                                  ![t].found = HasKey(cache, threads[t].key)]
    /\ UNCHANGED <<ids, cache, lock, objs, calls, parseVars, ctorVars>>

\* line 17: emplace inserts
Insert(t) ==
    /\ threads[t].at = "insert"
    /\ cache' = Emplaced(cache, threads[t].found, threads[t].key, threads[t].obj)
    /\ calls' = Append(calls, [key |-> threads[t].key, obj |-> threads[t].obj])
    /\ threads' = [threads EXCEPT ![t].at = "exit"]
    /\ UNCHANGED <<ids, lock, objs, parseVars, ctorVars>>

\* line 18: the thread leaves the critical section and the call returns
Exit(t) ==
    /\ threads[t].at = "exit"
    /\ lock' = 0
    /\ threads' = [threads EXCEPT ![t] = Idle]
    /\ UNCHANGED <<ids, cache, objs, calls, parseVars, ctorVars>>

NextCache ==
    \E t \in Threads :
        Construct(t) \/ Call(t) \/ Enter(t) \/ Lookup(t) \/ Insert(t) \/ Exit(t)

SpecCache == InitCache /\ [][NextCache]_vars

Ids == {objs[k].id_ : k \in 1..Len(objs)}

\* C19: the objects constructed so far, by whichever threads, have distinct
\* ids; these are the consecutive values 0 .. n-1 from the counter's
\* starting value 0, and the counter stands at n.
C19_IdsUnique ==
    /\ \A j, k \in 1..Len(objs) : objs[j].id_ = objs[k].id_ => j = k
    /\ Ids = 0..(Len(objs) - 1)
    /\ ids = Len(objs)

\* all the objects are constructed, by more than one thread, one of them while
\* another thread was inside RegisterCache
C19_Witness ==
    /\ Len(objs) = MaxObjects
    /\ \E j, k \in 1..Len(objs) : objs[j].by # objs[k].by
    /\ \E t \in Threads : threads[t].at \in {"lookup", "insert", "exit"}
                          /\ threads[t].obj < Len(objs)

InCritical(t) == threads[t].at \in {"lookup", "insert", "exit"}

MutuallyExclusive == \A t, u \in Threads : (InCritical(t) /\ InCritical(u)) => t = u

\* the first call under the key, in the order the emplaces ran
FirstCall(key) == calls[CHOOSE k \in 1..Len(calls) :
                           /\ calls[k].key = key
                           /\ \A j \in 1..(k - 1) : calls[j].key # key]

OneEntryPerKey ==
    /\ \A j, k \in 1..Len(cache) : cache[j].key = cache[k].key => j = k
    /\ {cache[k].key : k \in 1..Len(cache)} = {calls[k].key : k \in 1..Len(calls)}
    /\ \A k \in 1..Len(cache) : cache[k].obj = FirstCall(cache[k].key).obj

EntriesKept == \A k \in 1..Len(cache) : Len(cache') >= k /\ cache'[k] = cache[k]

\* C20: at most one thread is inside RegisterCache's critical section; the
\* cache holds exactly one entry for every key registered, with the object
\* of the first registration under the key; no entry is ever replaced.
C20_RegisterOnce == [](MutuallyExclusive /\ OneEntryPerKey) /\ [][EntriesKept]_vars

\* a registration found its key taken by another object and left the entry
\* alone, while another thread waits to register
C20_Witness ==
    \E t, u \in Threads :
        /\ threads[t].at = "exit" /\ threads[t].found
        /\ \E k \in 1..Len(cache) : cache[k].key = threads[t].key /\ cache[k].obj # threads[t].obj
        /\ threads[u].at = "waiting" /\ threads[u].key = threads[t].key

====
